---- MODULE Spec2Model ----
(***************************************************************************)
(* The VectorIndex contract of langchain_postgres/indexer/vectorstore_v2.py *)
(* (its default, derived operations) on top of the reference in-memory      *)
(* backend DictIndex given in the class docstring.                          *)
(*                                                                          *)
(* Identifiers are modelled by small naturals (i stands for the string     *)
(* "i"), so that identifier sort order is available; documents are opaque  *)
(* values.  An optional argument is [some |-> FALSE] (None) or             *)
(* [some |-> TRUE, val |-> v].                                              *)
(***************************************************************************)
EXTENDS Integers, Sequences, FiniteSets, TLC

\* Longest identifier / document sequence a caller passes in one call.
MaxLen == 2

\* Identifiers callers use, identifiers uuid4_generator may produce, documents.
Ids == {1, 2, 3}
Uuids == {9}
Docs == {"D1", "D2"}

None == [some |-> FALSE]
Some(v) == [some |-> TRUE, val |-> v]

\* filters argument: None, an empty mapping/list, or a non-empty filter.
Filters == {"None", "empty", "nonempty"}
\* extra keyword arguments, as the set of their keys.
Kwargs == {{}, {"k"}}

SeqsUpTo(S, n) == UNION {[1..k -> S] : k \in 0..n}
IdSeqs == SeqsUpTo(Ids, MaxLen)
DocSeqs == SeqsUpTo(Docs, MaxLen)
OptIdSeqs == {None} \cup {Some(s) : s \in IdSeqs}

Range(s) == {s[i] : i \in 1..Len(s)}
Min(a, b) == IF a <= b THEN a ELSE b

VARIABLES
    store,      \* DictIndex.store: a dict from identifier to document
    upserted,   \* per caller identifier: document of the last upsert pair
                \* reported for it since it was last named in a delete, or None
    deleted,    \* per caller identifier: a delete has reported it succeeded
                \* and it has not been upserted since
    last        \* the call just made: operation, arguments, outcome

vars == <<store, upserted, deleted, last>>

----------------------------------------------------------------------------
\* Python dict operations on DictIndex.store.

\* self.store = {}
EmptyStore == [x \in {} |-> "D1"]

\* id in self.store (a missing key makes store[id] and del store[id] raise)
StoreHas(s, id) == id \in DOMAIN s

\* self.store[id]
StoreGet(s, id) == s[id]

\* Variant of StoreSet: a key already present keeps its document (setdefault).
StoreSetDefault(s, id, doc) ==
    [x \in DOMAIN s \cup {id} |-> IF x \in DOMAIN s THEN s[x] ELSE doc]

\* self.store[id_] = doc
StoreSet(s, id, doc) == [x \in DOMAIN s \cup {id} |-> IF x = id THEN doc ELSE s[x]]

\* del self.store[id_]
StoreDel(s, id) == [x \in DOMAIN s \ {id} |-> s[x]]

----------------------------------------------------------------------------
\* Outcome of a call: the exception raised ("none" when it returns), the
\* response lists, the documents handed to the caller, whether a warning was
\* emitted, the backend primitives invoked, and the store afterwards.

Outcome(raised, succeeded, failed, out, warned, calls, s) ==
    [raised |-> raised, succeeded |-> succeeded, failed |-> failed,
     out |-> out, warned |-> warned, calls |-> calls, store |-> s]

Raise(exc, warned, calls, s) == Outcome(exc, <<>>, <<>>, <<>>, warned, calls, s)

----------------------------------------------------------------------------
\* DictIndex.upsert.  gen is what uuid4_generator yields for this call.

RECURSIVE UpsertLoop(_, _, _, _, _)
UpsertLoop(s, ids, documents, i, n) ==
    IF i > n THEN s
    ELSE UpsertLoop(StoreSet(s, ids[i], documents[i]), ids, documents, i + 1, n)

UpsertIds(ids, gen) == IF ids.some /\ ids.val # <<>> THEN ids.val ELSE gen

Upsert(s, documents, ids, gen) ==
    LET ids_ == UpsertIds(ids, gen)
        n == Min(Len(ids_), Len(documents))
    IN Outcome("none", SubSeq(ids_, 1, n), <<>>, <<>>, FALSE, <<"upsert">>,
               UpsertLoop(s, ids_, documents, 1, n))

----------------------------------------------------------------------------
\* Position of the first identifier of ids that is not a key of the store
\* (Len(ids) + 1 if all are): where a loop over ids first meets a KeyError.
FirstMissing(s, ids) ==
    IF \E i \in 1..Len(ids) : ~StoreHas(s, ids[i])
    THEN CHOOSE i \in 1..Len(ids) :
            /\ ~StoreHas(s, ids[i])
            /\ \A j \in 1..(i - 1) : StoreHas(s, ids[j])
    ELSE Len(ids) + 1

----------------------------------------------------------------------------
\* DictIndex.delete_by_ids.

RECURSIVE DeleteLoop(_, _, _, _, _)
DeleteLoop(s, ids, i, succeeded, failed) ==
    IF i > Len(ids) THEN [store |-> s, succeeded |-> succeeded, failed |-> failed]
    ELSE IF StoreHas(s, ids[i])
         THEN DeleteLoop(StoreDel(s, ids[i]), ids, i + 1, Append(succeeded, ids[i]), failed)
         ELSE DeleteLoop(s, ids, i + 1, succeeded, Append(failed, ids[i]))

\* Variant of DeleteByIds: the documents are reported deleted but kept.
DeleteByIdsKeepsStore(s, ids) ==
    LET r == DeleteLoop(s, ids, 1, <<>>, <<>>)
    IN Outcome("none", r.succeeded, r.failed, <<>>, FALSE, <<"delete_by_ids">>, s)

\* Variant of DeleteByIds: no try/except, an unknown identifier raises.
DeleteByIdsRaises(s, ids) ==
    LET k == FirstMissing(s, ids)
        r == DeleteLoop(s, SubSeq(ids, 1, k - 1), 1, <<>>, <<>>)
    IN IF k <= Len(ids) THEN Raise("KeyError", FALSE, <<"delete_by_ids">>, r.store)
       ELSE Outcome("none", r.succeeded, r.failed, <<>>, FALSE, <<"delete_by_ids">>, r.store)

DeleteByIds(s, ids) ==
    LET r == DeleteLoop(s, ids, 1, <<>>, <<>>)
    IN Outcome("none", r.succeeded, r.failed, <<>>, FALSE, <<"delete_by_ids">>, r.store)

----------------------------------------------------------------------------
\* DictIndex.lazy_get_by_ids: a generator.  Exhausting it yields store[id]
\* for each id in turn and raises KeyError at the first id not stored.

\* Variant of LazyGetByIds: the documents come in identifier sort order.
LazyGetByIdsSorted(s, ids) ==
    LET sorted == SortSeq(ids, LAMBDA a, b : a < b)
        k == FirstMissing(s, sorted)
    IN [kind |-> "Iterable",
        yielded |-> [i \in 1..(k - 1) |-> StoreGet(s, sorted[i])],
        raised |-> IF k <= Len(sorted) THEN "KeyError" ELSE "none"]

LazyGetByIds(s, ids) ==
    LET k == FirstMissing(s, ids)
    IN [kind |-> "Iterable",
        yielded |-> [i \in 1..(k - 1) |-> StoreGet(s, ids[i])],
        raised |-> IF k <= Len(ids) THEN "KeyError" ELSE "none"]

\* Consuming an iterable with a for loop (the caller of a lazy get).
Exhaust(it, warned, calls, s) ==
    Outcome(it.raised, <<>>, <<>>, it.yielded, warned, calls, s)

\* list(iterable): the list is returned only if the iteration completes.
List(it, warned, calls, s) ==
    IF it.raised # "none" THEN Raise(it.raised, warned, calls, s)
    ELSE Outcome("none", <<>>, <<>>, it.yielded, warned, calls, s)

\* async for over an object: needs __aiter__, which a generator lacks.
AsyncFor(it, warned, calls, s) ==
    IF it.kind # "AsyncIterable" THEN Raise("TypeError", warned, calls, s)
    ELSE List(it, warned, calls, s)

\* VectorIndex.get_by_ids
GetByIds(s, ids) == List(LazyGetByIds(s, ids), FALSE, <<"lazy_get_by_ids">>, s)

\* run_in_executor(None, func, *args): the value func(*args) returns.
RunInExecutor(result) == result

\* VectorIndex.alazy_get_by_ids
ALazyGetByIds(s, ids) == RunInExecutor(LazyGetByIds(s, ids))

\* VectorIndex.aget_by_ids
AGetByIds(s, ids) == AsyncFor(ALazyGetByIds(s, ids), FALSE, <<"lazy_get_by_ids">>, s)

----------------------------------------------------------------------------
\* The filtered entry points of VectorIndex (default implementations).

Truthy(filters) == filters = "nonempty"

\* kwargs = {"filters": filters, **kwargs} when a filter is supplied
FoldFilters(filters, kwargs) ==
    IF Truthy(filters) THEN kwargs \cup {"filters"} ELSE kwargs

\* warnings.warn(...) is reached exactly when the folded kwargs are non-empty
Warns(filters, kwargs) == FoldFilters(filters, kwargs) # {}

NoIterable == [kind |-> "none", yielded |-> <<>>, raised |-> "none"]

\* Result of a lazy entry point: raised at the call, or an iterable returned.
LazyResult(raised, warned, calls, it) ==
    [raised |-> raised, warned |-> warned, calls |-> calls, it |-> it]

\* Variant of LazyGet: a filter alone is accepted (if ids is None and not filters).
LazyGetFilterSuffices(s, ids, filters, kwargs) ==
    IF ~ids.some /\ ~Truthy(filters) THEN LazyResult("ValueError", FALSE, <<>>, NoIterable)
    ELSE LazyResult("none", Warns(filters, kwargs), <<"lazy_get_by_ids">>,
                    LazyGetByIds(s, IF ids.some THEN ids.val ELSE <<>>))

\* Variant of LazyGet: an unsupported filter is rejected instead of ignored.
LazyGetRejectsFilters(s, ids, filters, kwargs) ==
    IF ~ids.some \/ Truthy(filters) THEN LazyResult("ValueError", FALSE, <<>>, NoIterable)
    ELSE LazyResult("none", Warns(filters, kwargs), <<"lazy_get_by_ids">>,
                    LazyGetByIds(s, ids.val))

\* VectorIndex.lazy_get
LazyGet(s, ids, filters, kwargs) ==
    IF ~ids.some THEN LazyResult("ValueError", FALSE, <<>>, NoIterable)
    ELSE LazyResult("none", Warns(filters, kwargs), <<"lazy_get_by_ids">>,
                    LazyGetByIds(s, ids.val))

\* VectorIndex.alazy_get
ALazyGet(s, ids, filters, kwargs) ==
    IF ~ids.some THEN LazyResult("ValueError", FALSE, <<>>, NoIterable)
    ELSE LazyResult("none", Warns(filters, kwargs), <<"lazy_get_by_ids">>,
                    ALazyGetByIds(s, ids.val))

\* VectorIndex.get
Get(s, ids, filters, kwargs) ==
    LET r == LazyGet(s, ids, filters, kwargs)
    IN IF r.raised # "none" THEN Raise(r.raised, r.warned, r.calls, s)
       ELSE List(r.it, r.warned, r.calls, s)

\* VectorIndex.aget
AGet(s, ids, filters, kwargs) ==
    LET r == ALazyGet(s, ids, filters, kwargs)
    IN IF r.raised # "none" THEN Raise(r.raised, r.warned, r.calls, s)
       ELSE AsyncFor(r.it, r.warned, r.calls, s)

\* Names bound at module level (imports and Vector, VectorIndex); the Python
\* builtins hold no name "ids" either.
ModuleNames ==
    {"warnings", "ABC", "abstractmethod", "Any", "AsyncIterable", "Dict",
     "Iterable", "List", "Optional", "Union", "Document", "DeleteResponse",
     "UpsertResponse", "run_in_executor", "StructuredQuery", "Vector",
     "VectorIndex"}

\* Parameters of delete_by_filter: ids is not one of them, so a caller's
\* ids=... lands in **kwargs.
DeleteByFilterParams == {"self", "filters", "kwargs"}

\* VectorIndex.delete_by_filter.  ids is what the caller passed as ids=...
DeleteByFilter(s, ids, filters, kwargs) ==
    LET kw == IF ids.some THEN kwargs \cup {"ids"} ELSE kwargs
    IN IF "ids" \notin DeleteByFilterParams \cup ModuleNames
       THEN Raise("NameError", FALSE, <<>>, s)
       ELSE IF ~ids.some THEN Raise("ValueError", FALSE, <<>>, s)
       ELSE LET d == DeleteByIds(s, ids.val)
            IN Outcome(d.raised, d.succeeded, d.failed, d.out, Warns(filters, kw),
                       d.calls, d.store)

\* Attributes a DictIndex-backed VectorIndex instance has.
IndexAttrs ==
    {"upsert_by_vector", "delete_by_ids", "lazy_get_by_ids", "alazy_get_by_ids",
     "get_by_ids", "aget_by_ids", "delete_by_filter", "adelete", "lazy_get",
     "alazy_get", "get", "aget", "store", "upsert", "yield_keys"}

\* VectorIndex.adelete
ADelete(s, ids, filters, kwargs) ==
    IF ~ids.some THEN Raise("ValueError", FALSE, <<>>, s)
    ELSE IF "adelete_by_ids" \notin IndexAttrs
         THEN Raise("AttributeError", Warns(filters, kwargs), <<>>, s)
         ELSE LET d == DeleteByIds(s, ids.val)
              IN Outcome(d.raised, d.succeeded, d.failed, d.out,
                         Warns(filters, kwargs), <<"adelete_by_ids">>, d.store)

----------------------------------------------------------------------------
\* The state machine: a caller issues one operation after another.

NoHistory == [x \in Ids |-> None]

\* What the caller sees of a call: the arguments and the outcome.
Call(op, ids, documents, filters, res) ==
    [op |-> op, ids |-> ids, documents |-> documents, filtered |-> Truthy(filters),
     raised |-> res.raised, succeeded |-> res.succeeded, failed |-> res.failed,
     out |-> res.out, warned |-> res.warned, calls |-> res.calls]

\* The caller is between calls.
NoCall ==
    Call("idle", None, <<>>, "None",
         Outcome("none", <<>>, <<>>, <<>>, FALSE, <<>>, EmptyStore))

Idle == last.op = "idle"

Init ==
    /\ store = EmptyStore
    /\ upserted = NoHistory
    /\ deleted = [x \in Ids |-> FALSE]
    /\ last = NoCall

\* What uuid4_generator may yield for a call that stores n documents:
\* n distinct identifiers, none of them in use.
Generated(s, n) ==
    {g \in SeqsUpTo(Uuids, n) :
        /\ Len(g) = n
        /\ \A i, j \in 1..n : i # j => g[i] # g[j]
        /\ \A i \in 1..n : ~StoreHas(s, g[i])}

\* Index of the last pair of an upsert report that names x (0 if none).
LastPair(succeeded, x) ==
    IF \E i \in 1..Len(succeeded) : succeeded[i] = x
    THEN CHOOSE i \in 1..Len(succeeded) :
            /\ succeeded[i] = x
            /\ \A j \in (i + 1)..Len(succeeded) : succeeded[j] # x
    ELSE 0

DoUpsert ==
    /\ Idle
    /\ \E documents \in DocSeqs, ids \in OptIdSeqs :
      \E gen \in (IF ids.some /\ ids.val # <<>> THEN {<<>>}
                  ELSE Generated(store, Len(documents))) :
        LET res == Upsert(store, documents, ids, gen)
            named == Range(res.succeeded)
        IN /\ store' = res.store
           /\ upserted' = [x \in Ids |->
                             IF x \in named
                             THEN Some(documents[LastPair(res.succeeded, x)])
                             ELSE upserted[x]]
           /\ deleted' = [x \in Ids |-> x \notin named /\ deleted[x]]
           /\ last' = Call("upsert", ids, documents, "None", res)

DoDeleteByIds ==
    /\ Idle
    /\ \E ids \in IdSeqs :
        LET res == DeleteByIds(store, ids)
        IN /\ store' = res.store
           /\ upserted' = [x \in Ids |-> IF x \in Range(ids) THEN None ELSE upserted[x]]
           /\ deleted' = [x \in Ids |-> x \in Range(res.succeeded) \/ deleted[x]]
           /\ last' = Call("delete_by_ids", Some(ids), <<>>, "None", res)

\* An operation that is not a backend mutation primitive: the store changes
\* only as far as the operation's outcome says.
Query(op, ids, filters, res) ==
    /\ Idle
    /\ store' = res.store
    /\ UNCHANGED <<upserted, deleted>>
    /\ last' = Call(op, ids, <<>>, filters, res)

\* A lazy operation hands back an iterable; the caller then iterates it to
\* the end, with for (sync) or async for (async), as its return type says.
DoLazyGetByIds ==
    \E ids \in IdSeqs :
        Query("lazy_get_by_ids", Some(ids), "None",
              Exhaust(LazyGetByIds(store, ids), FALSE, <<"lazy_get_by_ids">>, store))

DoGetByIds ==
    \E ids \in IdSeqs :
        Query("get_by_ids", Some(ids), "None", GetByIds(store, ids))

DoALazyGetByIds ==
    \E ids \in IdSeqs :
        Query("alazy_get_by_ids", Some(ids), "None",
              AsyncFor(ALazyGetByIds(store, ids), FALSE, <<"lazy_get_by_ids">>, store))

DoAGetByIds ==
    \E ids \in IdSeqs :
        Query("aget_by_ids", Some(ids), "None", AGetByIds(store, ids))

DoLazyGet ==
    \E ids \in OptIdSeqs, filters \in Filters, kwargs \in Kwargs :
        LET r == LazyGet(store, ids, filters, kwargs)
        IN Query("lazy_get", ids, filters,
                 IF r.raised # "none" THEN Raise(r.raised, r.warned, r.calls, store)
                 ELSE Exhaust(r.it, r.warned, r.calls, store))

DoALazyGet ==
    \E ids \in OptIdSeqs, filters \in Filters, kwargs \in Kwargs :
        LET r == ALazyGet(store, ids, filters, kwargs)
        IN Query("alazy_get", ids, filters,
                 IF r.raised # "none" THEN Raise(r.raised, r.warned, r.calls, store)
                 ELSE AsyncFor(r.it, r.warned, r.calls, store))

DoGet ==
    \E ids \in OptIdSeqs, filters \in Filters, kwargs \in Kwargs :
        Query("get", ids, filters, Get(store, ids, filters, kwargs))

DoAGet ==
    \E ids \in OptIdSeqs, filters \in Filters, kwargs \in Kwargs :
        Query("aget", ids, filters, AGet(store, ids, filters, kwargs))

DoDeleteByFilter ==
    \E ids \in OptIdSeqs, filters \in Filters, kwargs \in Kwargs :
        Query("delete_by_filter", ids, filters,
              DeleteByFilter(store, ids, filters, kwargs))

DoADelete ==
    \E ids \in OptIdSeqs, filters \in Filters, kwargs \in Kwargs :
        Query("adelete", ids, filters, ADelete(store, ids, filters, kwargs))

\* The caller has taken the outcome of its call and is free to call again.
Return ==
    /\ ~Idle
    /\ last' = NoCall
    /\ UNCHANGED <<store, upserted, deleted>>

Next ==
    \/ Return
    \/ DoUpsert
    \/ DoDeleteByIds
    \/ DoLazyGetByIds
    \/ DoGetByIds
    \/ DoALazyGetByIds
    \/ DoAGetByIds
    \/ DoLazyGet
    \/ DoALazyGet
    \/ DoGet
    \/ DoAGet
    \/ DoDeleteByFilter
    \/ DoADelete

Spec == Init /\ [][Next]_vars

----------------------------------------------------------------------------
\* Properties.

FilteredGetOps == {"lazy_get", "get", "alazy_get", "aget"}
FilteredDeleteOps == {"delete_by_filter", "adelete"}
SyncGetOps == {"lazy_get_by_ids", "get_by_ids", "lazy_get", "get"}

AllStored(s, ids) == \A i \in 1..Len(ids) : StoreHas(s, ids[i])

\* C1: whenever lazy_get, get, alazy_get or aget is called without ids, for
\* every filters value and every extra keyword arguments, the call fails with
\* ValueError, no backend primitive is invoked and the store is unchanged.
C1_GetWithoutIdsIsValueError ==
    [][(last'.op \in FilteredGetOps /\ ~last'.ids.some)
        => /\ last'.raised = "ValueError"
           /\ last'.calls = <<>>
           /\ store' = store]_vars

\* A get with a non-empty filter but no ids has failed on a non-empty store.
C1_Witness ==
    /\ last.op = "get"
    /\ ~last.ids.some
    /\ last.filtered
    /\ last.raised = "ValueError"
    /\ store # EmptyStore

\* C2: delete_by_filter called without ids (with or without a filter) fails
\* with ValueError and no other error, does not invoke delete_by_ids and
\* leaves the store unchanged.
C2_DeleteByFilterWithoutIdsIsValueError ==
    [][(last'.op = "delete_by_filter" /\ ~last'.ids.some)
        => /\ last'.raised = "ValueError"
           /\ last'.calls = <<>>
           /\ store' = store]_vars

\* C3: delete_by_filter and adelete called with ids (any filter, any extra
\* keyword arguments) return without raising, with the response and the
\* resulting store of delete_by_ids on those ids from the same store.
C3_FilteredDeleteDelegates ==
    [][(last'.op \in FilteredDeleteOps /\ last'.ids.some)
        => LET d == DeleteByIds(store, last'.ids.val)
           IN /\ last'.raised = "none"
              /\ last'.succeeded = d.succeeded
              /\ last'.failed = d.failed
              /\ store' = d.store]_vars

\* C4: get(ids=ids, filters=F) with a non-empty filter F emits a warning and
\* has the outcome of get(ids=ids), which is that of get_by_ids(ids): the
\* documents of the requested ids when all are stored; the filter never
\* causes an error of its own.
C4_FilterIsIgnoredWithWarning ==
    [][(last'.op = "get" /\ last'.ids.some /\ last'.filtered)
        => LET ids == last'.ids.val
               plain == Get(store, last'.ids, "None", {})
               byIds == GetByIds(store, ids)
           IN /\ last'.warned
              /\ ~plain.warned
              /\ last'.raised = plain.raised /\ last'.out = plain.out
              /\ last'.raised = byIds.raised /\ last'.out = byIds.out
              /\ AllStored(store, ids)
                   => /\ last'.raised = "none"
                      /\ last'.out = [i \in 1..Len(ids) |-> store[ids[i]]]]_vars

\* A filtered get of two stored ids has warned and returned two documents.
C4_Witness ==
    /\ last.op = "get"
    /\ last.ids.some
    /\ last.filtered
    /\ last.warned
    /\ last.raised = "none"
    /\ Len(last.out) = 2

\* C5: awaiting aget_by_ids(ids) completes and returns a list equal to
\* get_by_ids(ids) on the same store (whenever get_by_ids(ids) returns).
C5_AsyncGetEqualsSyncGet ==
    [][(last'.op = "aget_by_ids" /\ GetByIds(store, last'.ids.val).raised = "none")
        => /\ last'.raised = "none"
           /\ last'.out = GetByIds(store, last'.ids.val).out]_vars

\* C6: for every identifier sequence submitted to upsert or delete_by_ids,
\* succeeded and failed together hold exactly the submitted identifiers and
\* have no identifier in common.  Stated for the calls whose submitted
\* identifiers are beyond dispute: every delete_by_ids, and every upsert
\* given a non-empty ids with one document per identifier.
C6_ResponsePartitionsSubmittedIds ==
    (/\ last.ids.some
     /\ \/ last.op = "delete_by_ids"
        \/ /\ last.op = "upsert"
           /\ last.ids.val # <<>>
           /\ Len(last.ids.val) = Len(last.documents))
        => /\ Range(last.succeeded) \cup Range(last.failed) = Range(last.ids.val)
           /\ Range(last.succeeded) \cap Range(last.failed) = {}

\* C7: once an upsert has reported identifier x succeeded with document D,
\* and until x is next upserted or named in a delete, get_by_ids([x])
\* returns exactly [D].
C7_GetAfterUpsertReturnsDocument ==
    /\ \A x \in Ids :
          upserted[x].some
            => /\ GetByIds(store, <<x>>).raised = "none"
               /\ GetByIds(store, <<x>>).out = <<upserted[x].val>>
    /\ (last.op = "get_by_ids" /\ Len(last.ids.val) = 1 /\ upserted[last.ids.val[1]].some)
          => /\ last.raised = "none"
             /\ last.out = <<upserted[last.ids.val[1]].val>>

\* get_by_ids([x]) has returned the document last upserted under x.
C7_Witness ==
    /\ last.op = "get_by_ids"
    /\ Len(last.ids.val) = 1
    /\ upserted[last.ids.val[1]].some
    /\ last.out = <<upserted[last.ids.val[1]].val>>

\* C8: after delete_by_ids has reported x in succeeded and until x is
\* upserted again, no get operation requested with x hands the caller a
\* document for x (so in particular not the one stored before the deletion):
\* the iteration stops before the position of x.
C8_NoDocumentAfterDelete ==
    /\ \A x \in Ids :
          deleted[x] => LazyGetByIds(store, <<x>>).yielded = <<>>
    /\ (last.op \in SyncGetOps /\ last.ids.some)
          => \A i \in 1..Len(last.ids.val) :
                deleted[last.ids.val[i]] => Len(last.out) < i

\* A lazy get of a stored id followed by a deleted id has yielded the first
\* document and then raised.
C8_Witness ==
    /\ last.op = "lazy_get_by_ids"
    /\ Len(last.ids.val) = 2
    /\ deleted[last.ids.val[2]]
    /\ Len(last.out) = 1
    /\ last.raised = "KeyError"

\* C9: delete_by_ids returns normally for every store and identifier
\* sequence; every requested identifier that was stored is in succeeded
\* (and only those), every one that was not stored is in failed; exactly the
\* requested identifiers are removed, and every other stored document is
\* still returned unchanged by get_by_ids.
C9_UnknownIdsAreReportedFailed ==
    [][last'.op = "delete_by_ids"
        => LET ids == last'.ids.val
           IN /\ last'.raised = "none"
              /\ Range(last'.succeeded) = Range(ids) \cap DOMAIN store
              /\ Range(ids) \ DOMAIN store \subseteq Range(last'.failed)
              /\ Range(last'.failed) \subseteq Range(ids)
              /\ DOMAIN store' = DOMAIN store \ Range(ids)
              /\ \A y \in DOMAIN store \ Range(ids) :
                    /\ GetByIds(store', <<y>>).raised = "none"
                    /\ GetByIds(store', <<y>>).out = <<store[y]>>]_vars

\* A delete of one stored and one unknown id has reported both, and another
\* document is still stored.
C9_Witness ==
    /\ last.op = "delete_by_ids"
    /\ Len(last.succeeded) = 1
    /\ Len(last.failed) = 1
    /\ last.succeeded # last.failed
    /\ store # EmptyStore

\* C10: get_by_ids and get, requested with stored identifiers in any order
\* and with or without repeats, return one document per requested
\* identifier, the i-th being the document stored under the i-th identifier.
C10_GetPreservesRequestOrder ==
    [][(last'.op \in {"get_by_ids", "get"} /\ last'.ids.some
            /\ AllStored(store, last'.ids.val))
        => LET ids == last'.ids.val
           IN /\ last'.raised = "none"
              /\ Len(last'.out) = Len(ids)
              /\ \A i \in 1..Len(ids) : last'.out[i] = store[ids[i]]]_vars

\* get_by_ids has returned two different documents for two ids requested in
\* descending identifier order.
C10_Witness ==
    /\ last.op = "get_by_ids"
    /\ Len(last.ids.val) = 2
    /\ last.ids.val[1] > last.ids.val[2]
    /\ last.raised = "none"
    /\ Len(last.out) = 2
    /\ last.out[1] # last.out[2]

====
